---- MODULE Spec2Model ----
(***************************************************************************)
(* Model of the wagering bot of src/bot.py: the players, games and         *)
(* game_players tables behind the one process-wide SQLAlchemy session, and *)
(* the command handlers join, balance, deposit, bet, win, stats and audit.  *)
(*                                                                         *)
(* Scheduling.  The handlers are coroutines on one asyncio event loop.     *)
(* Every database and wallet call in them is a blocking call, and the only *)
(* `await` in a handler is its final ctx.send.  A handler therefore runs   *)
(* from its first line to that send as one step, and concurrent commands   *)
(* are such steps in any order.  Nothing of a handler touches the tables   *)
(* after its send.                                                         *)
(*                                                                         *)
(* Money is a Python float in the source; amounts are modelled as integer  *)
(* units.                                                                  *)
(***************************************************************************)
EXTENDS Integers, Sequences, FiniteSets, TLC

\* ------------------------------------------------------------------ bounds

\* Largest amount a caller submits (the smallest is -1).
MaxAmount == 1

\* Deposits are taken only while the balance stays within -MaxBalance..MaxBalance.
MaxBalance == 1

Ids == {"alice", "bob"}

Amounts == -1 .. MaxAmount

\* Values secrets.token_hex can return.
Secrets == {"s1", "s2"}

\* Codes a caller can submit: any token, or a string with a non-ASCII character.
NonAscii == "nonascii"

Codes == Secrets \cup {NonAscii}

VARIABLES
    players,        \* table players: the rows [discord_id, balance, otp_secret]
    games,          \* table games: rows [pot]; the index is Game.id
    game_players,   \* table game_players: rows [game_id, player_id, bet_amount], oldest first;
                    \* player_id is the player's discord_id, which stands for Player.id
    session,        \* the global session: "active", or "inactive" after a failed flush
    last            \* the command handled last: [op, id, reply], with the balance a
                    \* balance reply shows (value) and the list a stats reply shows (board)

vars == <<players, games, game_players, session, last>>

ledger == <<players, games, game_players>>

\* ----------------------------------------------------------------- helpers

RECURSIVE SumBets(_)
SumBets(rows) ==
    IF rows = <<>> THEN 0 ELSE Head(rows).bet_amount + SumBets(Tail(rows))

NoPlayer == [discord_id |-> "", balance |-> 0, otp_secret |-> ""]

\* session.query(Player).filter_by(discord_id=player_id).first(): a row, or None
FindPlayer(player_id) ==
    LET found == {row \in players : row.discord_id = player_id}
    IN  IF found = {} THEN NoPlayer ELSE CHOOSE row \in found : TRUE

\* The row is replaced by a new one that carries only the identity and the balance.
WithBalance_NewRow(row, new_balance) ==
    (players \ {row}) \cup
        {[discord_id |-> row.discord_id, balance |-> new_balance, otp_secret |-> ""]}

\* The table with one row's balance written.
WithBalance(row, new_balance) ==
    (players \ {row}) \cup {[row EXCEPT !.balance = new_balance]}

\* session.query(Game).first(): the row's id, 0 for None
FirstGame(gs) == IF Len(gs) = 0 THEN 0 ELSE 1

\* game.pot of the first game; 0 while there is no game
PotOf(gs) == IF FirstGame(gs) = 0 THEN 0 ELSE gs[FirstGame(gs)].pot

\* The game_players rows of the game a bet goes to.
Contributions(gs, rows) ==
    SelectSeq(rows, LAMBDA row : row.game_id = FirstGame(gs))

\* secrets.token_hex(16): any token
generate_otp_secret == Secrets

\* hmac.compare_digest on two str: equality, and a TypeError when either
\* holds a non-ASCII character.
verify_otp(secret, otp_code) ==
    IF otp_code = NonAscii \/ secret = NonAscii THEN "TypeError"
    ELSE IF secret = otp_code THEN "true" ELSE "false"

\* A flush of a new game_players row fails on its primary key (game_id, player_id).
PrimaryKeyTaken(rows, game_id, player_id) ==
    \E k \in 1..Len(rows) : rows[k].game_id = game_id /\ rows[k].player_id = player_id

\* A flush of a new players row fails on the unique discord_id.
UniqueTaken(rows, discord_id) ==
    \E row \in rows : row.discord_id = discord_id

\* What bitcoin_rpc.sendtoaddress can do: return a txid, raise JSONRPCException,
\* or raise something else (the connection failed).  The handler checks nothing
\* about the amount before the call.
RpcOutcomes == {"txid", "JSONRPCException", "OSError"}

\* A session.commit() either succeeds or fails in the store.
CommitOutcomes == BOOLEAN

\* Line 119: the balance covers the bet.
Covers(player_balance, amount) == player_balance >= amount

\* Lines 120-124: the games table after the lookup, with a new row when it was empty.
GameForBet(gs) == IF FirstGame(gs) = 0 THEN Append(gs, [pot |-> 0]) ELSE gs

\* Line 126: the balance written by a bet.
Debit(player_balance, amount) == player_balance - amount

\* The balance is overwritten with the amount instead of raised by it.
Credit_Overwrite(player_balance, amount) == amount

\* Lines 103 and 149: the balance written by a deposit or a win.
Credit(player_balance, amount) == player_balance + amount

\* The balance is raised before the wallet is asked to send.
BalanceAfterFailedSend_Credited(player_balance, amount) == player_balance + amount

\* Lines 102-103: sendtoaddress raises before line 103 runs, so the balance the
\* handler leaves behind is the one it found.
BalanceAfterFailedSend(player_balance, amount) == player_balance

\* The pot is overwritten with the bet instead of raised by it.
PotAfterBet_Overwrite(pot, amount) == amount

\* Line 127: the pot written by a bet.
PotAfterBet(pot, amount) == pot + amount

\* The pot is left as it was when it is paid out.
PotAfterWin_Kept(pot) == pot

\* Line 150: the pot written by a win.
PotAfterWin(pot) == 0

\* The handler sends `reply` with ctx.send.
Reply(op, id, reply) ==
    last' = [op |-> op, id |-> id, reply |-> reply, value |-> 0, board |-> <<>>]

\* Line 91: the reply that shows player.balance.
ReplyBalance(op, id, reply, value) ==
    last' = [op |-> op, id |-> id, reply |-> reply, value |-> value, board |-> <<>>]

\* Line 162: the reply that shows the leaderboard.
ReplyBoard(op, id, reply, board) ==
    last' = [op |-> op, id |-> id, reply |-> reply, value |-> 0, board |-> board]

\* The exceptions a handler can end with.
Errors == {"TypeError", "OSError", "OperationalError", "IntegrityError",
           "InvalidRequestError"}

\* The handler ends with an exception: nothing is sent.
Raise(op, id, error) ==
    last' = [op |-> op, id |-> id, reply |-> error, value |-> 0, board |-> <<>>]

\* Any use of the session after a failed flush raises until session.rollback(),
\* which no handler calls.
RaiseInactive(op, id) ==
    /\ session = "inactive"
    /\ UNCHANGED <<ledger, session>>
    /\ Raise(op, id, "InvalidRequestError")

\* A commit that fails (the store fails: OperationalError; a key is taken:
\* IntegrityError) rolls the transaction back and leaves the session inactive.
CommitFailed(op, id, error) ==
    /\ session' = "inactive"
    /\ Raise(op, id, error)

\* ------------------------------------------------------------------- state

Init ==
    /\ players = {}
    /\ games = <<>>
    /\ game_players = <<>>
    /\ session = "active"
    /\ last = [op |-> "none", id |-> "", reply |-> "none", value |-> 0, board |-> <<>>]

\* ---------------------------------------------------------------- handlers

join(id) ==
    \/ RaiseInactive("join", id)
    \/ /\ session = "active"
       /\ IF FindPlayer(id) = NoPlayer
          THEN \E otp_secret \in generate_otp_secret, commit_ok \in CommitOutcomes :
                 IF commit_ok /\ ~UniqueTaken(players, id)
                 THEN /\ players' = players \cup
                             {[discord_id |-> id, balance |-> 0, otp_secret |-> otp_secret]}
                      /\ UNCHANGED <<games, game_players, session>>
                      /\ Reply("join", id, "joined")
                 ELSE /\ UNCHANGED ledger
                      /\ CommitFailed("join", id,
                             IF UniqueTaken(players, id) THEN "IntegrityError"
                             ELSE "OperationalError")
          ELSE /\ UNCHANGED <<ledger, session>>
               /\ Reply("join", id, "already")

balance(id) ==
    \/ RaiseInactive("balance", id)
    \/ /\ session = "active"
       /\ UNCHANGED <<ledger, session>>
       /\ IF FindPlayer(id) # NoPlayer
          THEN ReplyBalance("balance", id, "balance", FindPlayer(id).balance)
          ELSE Reply("balance", id, "need_join")

deposit(id, amount, otp_code) ==
    \/ RaiseInactive("deposit", id)
    \/ /\ session = "active"
       /\ LET player == FindPlayer(id)
          IN  IF player = NoPlayer
              THEN /\ UNCHANGED <<ledger, session>>
                   /\ Reply("deposit", id, "need_join")
              ELSE
              CASE verify_otp(player.otp_secret, otp_code) = "TypeError" ->
                     /\ UNCHANGED <<ledger, session>>
                     /\ Raise("deposit", id, "TypeError")
                [] verify_otp(player.otp_secret, otp_code) = "false" ->
                     /\ UNCHANGED <<ledger, session>>
                     /\ Reply("deposit", id, "invalid_otp")
                [] verify_otp(player.otp_secret, otp_code) = "true" ->
                     \E rpc \in RpcOutcomes :
                       CASE rpc = "JSONRPCException" ->
                              /\ players' = WithBalance(player,
                                     BalanceAfterFailedSend(player.balance, amount))
                              /\ UNCHANGED <<games, game_players, session>>
                              /\ Reply("deposit", id, "tx_failed")
                         [] rpc = "OSError" ->
                              /\ players' = WithBalance(player,
                                     BalanceAfterFailedSend(player.balance, amount))
                              /\ UNCHANGED <<games, game_players, session>>
                              /\ Raise("deposit", id, "OSError")
                         [] rpc = "txid" ->
                              /\ Credit(player.balance, amount) \in -MaxBalance..MaxBalance
                              /\ \E commit_ok \in CommitOutcomes :
                                   IF commit_ok
                                   THEN /\ players' = WithBalance(player,
                                                         Credit(player.balance, amount))
                                        /\ UNCHANGED <<games, game_players, session>>
                                        /\ Reply("deposit", id, "deposit_ok")
                                   ELSE /\ UNCHANGED ledger
                                        /\ CommitFailed("deposit", id, "OperationalError")

bet(id, amount, otp_code) ==
    \/ RaiseInactive("bet", id)
    \/ /\ session = "active"
       /\ LET player == FindPlayer(id)
          IN  IF player = NoPlayer
              THEN /\ UNCHANGED <<ledger, session>>
                   /\ Reply("bet", id, "need_join")
              ELSE
              CASE verify_otp(player.otp_secret, otp_code) = "TypeError" ->
                     /\ UNCHANGED <<ledger, session>>
                     /\ Raise("bet", id, "TypeError")
                [] verify_otp(player.otp_secret, otp_code) = "false" ->
                     /\ UNCHANGED <<ledger, session>>
                     /\ Reply("bet", id, "invalid_otp")
                [] verify_otp(player.otp_secret, otp_code) = "true" ->
                     IF ~Covers(player.balance, amount)
                     THEN /\ UNCHANGED <<ledger, session>>
                          /\ Reply("bet", id, "insufficient")
                     ELSE \E game_commit_ok \in CommitOutcomes, commit_ok \in CommitOutcomes :
                            IF FirstGame(games) = 0 /\ ~game_commit_ok
                            THEN \* the commit of the new game (line 124) fails
                                 /\ UNCHANGED ledger
                                 /\ CommitFailed("bet", id, "OperationalError")
                            ELSE LET gs == GameForBet(games)
                                     g  == FirstGame(gs)
                                 IN  IF commit_ok /\ ~PrimaryKeyTaken(game_players, g, id)
                                     THEN /\ players' = WithBalance(player,
                                                           Debit(player.balance, amount))
                                          /\ games' = [gs EXCEPT ![g].pot =
                                                           PotAfterBet(@, amount)]
                                          /\ game_players' = Append(game_players,
                                                [game_id |-> g, player_id |-> id,
                                                 bet_amount |-> amount])
                                          /\ session' = session
                                          /\ Reply("bet", id, "bet_ok")
                                     ELSE \* the commit of line 132 fails; a game
                                          \* committed at line 124 stays
                                          /\ games' = gs
                                          /\ UNCHANGED <<players, game_players>>
                                          /\ CommitFailed("bet", id,
                                                 IF PrimaryKeyTaken(game_players, g, id)
                                                 THEN "IntegrityError"
                                                 ELSE "OperationalError")

win(id) ==
    \/ RaiseInactive("win", id)
    \/ /\ session = "active"
       /\ LET player == FindPlayer(id)
              g == FirstGame(games)
          IN  IF player = NoPlayer
              THEN /\ UNCHANGED <<ledger, session>>
                   /\ Reply("win", id, "need_join")
              ELSE IF g # 0 /\ games[g].pot > 0
              THEN \E commit_ok \in CommitOutcomes :
                     IF commit_ok
                     THEN /\ players' = WithBalance(player,
                                           Credit(player.balance, games[g].pot))
                          /\ games' = [games EXCEPT ![g].pot = PotAfterWin(@)]
                          /\ UNCHANGED <<game_players, session>>
                          /\ Reply("win", id, "win_ok")
                     ELSE /\ UNCHANGED ledger
                          /\ CommitFailed("win", id, "OperationalError")
              ELSE /\ UNCHANGED <<ledger, session>>
                   /\ Reply("win", id, "no_pot")

\* Line 160: limit(10).
StatsLimit == 10

\* The first `limit` rows of a result.
Limit(rows, limit) == SubSeq(rows, 1, IF Len(rows) < limit THEN Len(rows) ELSE limit)

\* Line 160: order_by(Player.balance.desc()) names no second key, so rows of
\* equal balance come in whatever order the store yields: every listing of
\* the rows, each once, with the balances not rising.
OrderedByBalanceDesc(rows) ==
    {board \in [1..Cardinality(rows) -> rows] :
        /\ \A i, j \in 1..Cardinality(rows) : i # j => board[i] # board[j]
        /\ \A i, j \in 1..Cardinality(rows) : i < j => board[i].balance >= board[j].balance}

\* Line 161: what the reply shows of a row.
Shown(board) == [i \in 1..Len(board) |->
                   [discord_id |-> board[i].discord_id, balance |-> board[i].balance]]

\* stats reads no author: the caller is not part of what it does.
stats ==
    \/ RaiseInactive("stats", "")
    \/ /\ session = "active"
       /\ UNCHANGED <<ledger, session>>
       /\ \E board \in OrderedByBalanceDesc(players) :
            ReplyBoard("stats", "", "stats", Shown(Limit(board, StatsLimit)))

audit ==
    \/ RaiseInactive("audit", "")
    \/ /\ session = "active"
       /\ UNCHANGED <<ledger, session>>
       /\ Reply("audit", "", "audit")

\* The process is started again (lines 30-34, 58, 181): a new session on the
\* same database.
Restart ==
    /\ session' = "active"
    /\ last' = [op |-> "restart", id |-> "", reply |-> "none", value |-> 0, board |-> <<>>]
    /\ UNCHANGED ledger

Next ==
    \/ \E id \in Ids : join(id)
    \/ \E id \in Ids : balance(id)
    \/ \E id \in Ids, amount \in Amounts, otp_code \in Codes : deposit(id, amount, otp_code)
    \/ \E id \in Ids, amount \in Amounts, otp_code \in Codes : bet(id, amount, otp_code)
    \/ \E id \in Ids : win(id)
    \/ stats
    \/ audit
    \/ Restart

Spec == Init /\ [][Next]_vars

\* ------------------------------------------------------------------ claims

Registered(id) == FindPlayer(id) # NoPlayer

BalanceOf(id) == FindPlayer(id).balance

SecretOf(id) == FindPlayer(id).otp_secret

\* The rows of every player but `id`.
OtherRows(rows, id) == {row \in rows : row.discord_id # id}

\* C1: in every reachable state every player's balance is >= 0.
C1_BalanceNonNegative == \A row \in players : row.balance >= 0

\* C2: in every reachable state the pot is >= 0 and equals the sum of the
\* amounts of the contributions of the current session.
C2_PotIsSumOfContributions ==
    /\ PotOf(games) >= 0
    /\ PotOf(games) = SumBets(Contributions(games, game_players))

\* C3: every PlaceBet applies all four of its effects (balance decreased by the
\* amount, a session exists, pot increased by the amount, one contribution
\* appended) or none of them.
C3_BetAllOrNothing ==
    [][\A id \in Ids, amount \in Amounts, otp_code \in Codes :
         bet(id, amount, otp_code) =>
           \/ /\ Registered(id)
              /\ BalanceOf(id)' = BalanceOf(id) - amount
              /\ FirstGame(games') # 0
              /\ PotOf(games') = PotOf(games) + amount
              /\ game_players' = Append(game_players,
                     [game_id |-> FirstGame(games'), player_id |-> id,
                      bet_amount |-> amount])
           \/ UNCHANGED ledger]_vars

\* C4: across PlaceBet calls of different players to the same session, in any
\* order, the pot grows by exactly the amount of each bet that succeeded (the
\* contribution it recorded) and stays as it is when a bet fails, and no bet
\* makes any player's balance negative.
C4_ConcurrentBetsAddUp ==
    [][last'.op = "bet" =>
         /\ PotOf(games') - PotOf(games) =
                SumBets(game_players') - SumBets(game_players)
         /\ IF last'.reply = "bet_ok"
            THEN /\ Len(game_players') = Len(game_players) + 1
                 /\ SubSeq(game_players', 1, Len(game_players)) = game_players
                 /\ game_players'[Len(game_players')].player_id = last'.id
            ELSE /\ game_players' = game_players
                 /\ PotOf(games') = PotOf(games)
         /\ \A row \in players' : row.balance < 0 => row \in players
         /\ OtherRows(players', last'.id) = OtherRows(players, last'.id)]_vars

\* Two players have contributed to the same session, the second just now.
C4_Witness ==
    /\ last.op = "bet" /\ last.reply = "bet_ok"
    /\ Len(game_players) = 2
    /\ game_players[1].player_id # game_players[2].player_id
    /\ game_players[1].game_id = game_players[2].game_id
    /\ game_players[1].bet_amount > 0 /\ game_players[2].bet_amount > 0

\* C5: calls on one identity are serialized: a PlaceBet that succeeds found the
\* balance it writes back covering the amount, and no PlaceBet or Credit of a
\* player who has also bet makes that player's balance negative.
C5_SamePlayerSerialized ==
    [][\A id \in Ids, amount \in Amounts, otp_code \in Codes :
         /\ bet(id, amount, otp_code) /\ last'.reply = "bet_ok" =>
              /\ BalanceOf(id) >= amount
              /\ BalanceOf(id)' = BalanceOf(id) - amount
         /\ /\ bet(id, amount, otp_code) \/ deposit(id, amount, otp_code)
            /\ Registered(id) /\ BalanceOf(id) >= 0
            /\ PrimaryKeyTaken(game_players', FirstGame(games'), id)
            => BalanceOf(id)' >= 0]_vars

\* C6: a Credit or PlaceBet of a registered player whose code is not the stored
\* secret is answered Unauthorized and changes nothing, and a Credit or
\* PlaceBet changes a balance only with the stored secret as its code.
C6_GateNotBypassed ==
    [][\A id \in Ids, amount \in Amounts, otp_code \in Codes :
         /\ bet(id, amount, otp_code) \/ deposit(id, amount, otp_code)
         /\ Registered(id)
         => /\ otp_code # SecretOf(id) =>
                 last'.reply = "invalid_otp" /\ UNCHANGED ledger
            /\ players' # players => otp_code = SecretOf(id)]_vars

\* C7: a PlaceBet of a registered player with the valid code and amount <= 0
\* is refused (it does not succeed) and changes nothing.  A call whose own
\* commit the store fails is left aside.
C7_BetRejectsNonPositive ==
    [][\A id \in Ids, amount \in Amounts, otp_code \in Codes :
         /\ bet(id, amount, otp_code)
         /\ Registered(id) /\ otp_code = SecretOf(id) /\ amount <= 0
         /\ last'.reply # "OperationalError"
         => last'.reply # "bet_ok" /\ UNCHANGED ledger]_vars

\* C8: a Credit of a registered player with the valid code and amount <= 0 is
\* refused (it does not succeed) and changes nothing.
C8_CreditRejectsNonPositive ==
    [][\A id \in Ids, amount \in Amounts, otp_code \in Codes :
         /\ deposit(id, amount, otp_code)
         /\ Registered(id) /\ otp_code = SecretOf(id) /\ amount <= 0
         => last'.reply # "deposit_ok" /\ UNCHANGED ledger]_vars

\* C9: a PlaceBet of a registered player with the valid code and an amount
\* above the balance is answered InsufficientBalance and changes nothing; it
\* creates no session.
C9_BetBeyondBalance ==
    [][\A id \in Ids, amount \in Amounts, otp_code \in Codes :
         /\ bet(id, amount, otp_code)
         /\ Registered(id) /\ otp_code = SecretOf(id) /\ amount > BalanceOf(id)
         => last'.reply = "insufficient" /\ UNCHANGED ledger]_vars

\* C10: a Settle by a registered identity while the pot is > 0 succeeds, adds
\* the whole pot to the caller's balance, sets the pot to 0, closes the session
\* (no contribution stays with the current session) and leaves the other
\* players as they were.  A call whose own commit the store fails is left aside.
C10_SettleTakesPot ==
    [][\A id \in Ids :
         win(id) /\ Registered(id) /\ PotOf(games) > 0
         /\ last'.reply # "OperationalError"
         => /\ last'.reply = "win_ok"
            /\ BalanceOf(id)' = BalanceOf(id) + PotOf(games)
            /\ PotOf(games') = 0
            /\ Contributions(games', game_players') = <<>>
            /\ OtherRows(players', id) = OtherRows(players, id)]_vars

\* C11: a Settle of an unregistered identity is answered NotFound, a Settle of
\* a registered one with no session or with pot 0 is answered NoActivePot,
\* both changing nothing; and a Settle that succeeds never lowers the caller's
\* balance.
C11_SettleRefusals ==
    [][\A id \in Ids :
         win(id) =>
           /\ ~Registered(id) => last'.reply = "need_join" /\ UNCHANGED ledger
           /\ Registered(id) /\ (FirstGame(games) = 0 \/ PotOf(games) = 0) =>
                  last'.reply = "no_pot" /\ UNCHANGED ledger
           /\ last'.reply = "win_ok" => BalanceOf(id)' >= BalanceOf(id)]_vars

\* Lines 120 and 146: the session is the first games row; it is open while it
\* holds a pot or contributions.
SessionOpen(gs, rows) ==
    FirstGame(gs) # 0 /\ (PotOf(gs) # 0 \/ Contributions(gs, rows) # <<>>)

\* C12: at most one session exists; a PlaceBet that succeeds with no session
\* open opens one that holds just that bet; only a Settle that succeeds closes
\* an open session; and after a Settle that succeeds no session is open.
C12_SessionLifecycle ==
    [][/\ Len(games') <= 1
       /\ last'.reply = "bet_ok" /\ ~SessionOpen(games, game_players) =>
              /\ SessionOpen(games', game_players')
              /\ Len(Contributions(games', game_players')) = 1
       /\ SessionOpen(games, game_players) /\ ~SessionOpen(games', game_players') =>
              last'.reply = "win_ok"
       /\ last'.reply = "win_ok" => ~SessionOpen(games', game_players')]_vars

\* C13: a Register of a new identity adds exactly one player, with balance 0
\* and a generated secret; a Register of an existing identity is answered
\* AlreadyExists and changes nothing; and no two players share an identity.
\* A call whose own commit the store fails is left aside.
C13_RegisterOnce ==
    [][\A id \in Ids :
         join(id) /\ last'.reply # "OperationalError" =>
           /\ ~Registered(id) =>
                 /\ last'.reply = "joined"
                 /\ \E otp_secret \in generate_otp_secret :
                       players' = players \cup
                           {[discord_id |-> id, balance |-> 0, otp_secret |-> otp_secret]}
                 /\ Cardinality(players') = Cardinality(players) + 1
                 /\ UNCHANGED <<games, game_players>>
           /\ Registered(id) => last'.reply = "already" /\ UNCHANGED ledger
           /\ \A r1, r2 \in players' : r1.discord_id = r2.discord_id => r1 = r2]_vars

\* C14: a deposit is credited only after the wallet send succeeded: a Credit
\* whose wallet send fails changes no balance, no pot and no contribution, and
\* a Credit call that changes anything is one that reports success.
C14_CreditAfterSend ==
    [][last'.op = "deposit" =>
         /\ last'.reply \in {"tx_failed", "OSError"} => UNCHANGED <<ledger, session>>
         /\ ledger' # ledger => last'.reply = "deposit_ok"]_vars

\* A Credit of a registered player with the valid code has just failed in the
\* wallet.
C14_Witness ==
    /\ last.op = "deposit" /\ last.reply = "tx_failed"
    /\ Registered(last.id)

\* C15: a Credit of an amount > 0 that succeeds raises that player's balance by
\* exactly the amount and leaves the other players, the pot and the
\* contributions as they were; a GetBalance that follows it shows that
\* balance; and a Register leaves the new player at 0, so that a Credit right
\* after it yields 0 + amount.
C15_CreditAddsAmount ==
    [][\A id \in Ids :
         /\ last'.op = "deposit" /\ last'.reply = "deposit_ok" /\ last'.id = id =>
              \A amount \in Amounts, otp_code \in Codes :
                 deposit(id, amount, otp_code) /\ amount > 0 =>
                   /\ BalanceOf(id)' = BalanceOf(id) + amount
                   /\ OtherRows(players', id) = OtherRows(players, id)
                   /\ Cardinality(players') = Cardinality(players)
                   /\ UNCHANGED <<games, game_players>>
         /\ last.op = "deposit" /\ last.reply = "deposit_ok" /\ last.id = id
            /\ last'.op = "balance" /\ last'.id = id =>
              last'.reply = "balance" /\ last'.value = BalanceOf(id)
         /\ last'.op = "join" /\ last'.reply = "joined" /\ last'.id = id =>
              BalanceOf(id)' = 0]_vars

\* A GetBalance shows 1 to a player who has only ever been credited: no bet
\* and no win has happened.
C15_Witness ==
    /\ last.op = "balance" /\ last.reply = "balance" /\ last.value = 1
    /\ games = <<>> /\ game_players = <<>>

\* The replies of an operation that failed: a refusal, or an exception.
Failures == {"already", "need_join", "invalid_otp", "tx_failed", "insufficient",
             "no_pot"} \cup Errors

\* C16: an operation that fails, with one of its errors or with a storage
\* failure at commit, leaves the ledger as it was, and leaves it usable: a
\* Register of a new identity, or a GetBalance of a registered one, that comes
\* next succeeds.
C16_FailureLeavesNoTrace ==
    [][\A id \in Ids :
         /\ last'.reply \in Failures => UNCHANGED ledger
         /\ last.reply \in Failures /\ balance(id) /\ Registered(id) =>
              last'.reply = "balance"
         /\ last.reply \in Failures /\ join(id) /\ ~Registered(id)
            /\ last'.reply # "OperationalError" => last'.reply = "joined"]_vars

\* The place of an identity in ascending order.
IdRank(id) == IF id = "alice" THEN 1 ELSE 2

\* The listing the claim fixes: balances not rising, and among equal balances
\* the identities ascending.
Ranked(rows) ==
    {board \in OrderedByBalanceDesc(rows) :
        \A i, j \in 1..Len(board) :
            i < j /\ board[i].balance = board[j].balance =>
                IdRank(board[i].discord_id) < IdRank(board[j].discord_id)}

\* C17: a Leaderboard shows the players by balance descending, equal balances
\* by identity ascending, cut to the limit: the one listing that order fixes,
\* whatever order the players registered in.
C17_LeaderboardOrder ==
    [][last'.op = "stats" /\ last'.reply = "stats" =>
         \E board \in Ranked(players) :
            last'.board = Shown(Limit(board, StatsLimit))]_vars

\* The identity and secret of every row.
Credentials(rows) ==
    {[discord_id |-> row.discord_id, otp_secret |-> row.otp_secret] : row \in rows}

\* C18: no step removes a player or changes a player's identity or secret:
\* every registered identity stays registered, with the secret it had.
C18_PlayersPermanent ==
    [][/\ Credentials(players) \subseteq Credentials(players')
       /\ \A id \in Ids : Registered(id) =>
             Registered(id)' /\ SecretOf(id)' = SecretOf(id)
       /\ Cardinality(players') >= Cardinality(players)]_vars

\* Both players are registered, and one of them has been credited, has bet and
\* has won since.
C18_Witness ==
    /\ Cardinality(players) = 2
    /\ last.op = "win" /\ last.reply = "win_ok"

\* C19: a registered player with the valid code and a balance that covers the
\* amount can bet again in a session they have contributed to (the session
\* before or after a Settle): the PlaceBet succeeds and appends one
\* contribution, leaving the earlier ones as they were.  A call whose own
\* commit the store fails is left aside, and so are histories with a bet that
\* was not positive.
C19_RepeatedBets ==
    [][\A id \in Ids, amount \in Amounts, otp_code \in Codes :
         /\ bet(id, amount, otp_code)
         /\ Registered(id) /\ otp_code = SecretOf(id) /\ amount > 0
         /\ BalanceOf(id) >= amount
         /\ \A k \in 1..Len(game_players) : game_players[k].bet_amount > 0
         /\ \E k \in 1..Len(game_players) : game_players[k].player_id = id
         /\ last'.reply # "OperationalError"
         => /\ last'.reply = "bet_ok"
            /\ game_players' = Append(game_players,
                   [game_id |-> FirstGame(games'), player_id |-> id,
                    bet_amount |-> amount])]_vars

RECURSIVE SumBalances(_)
SumBalances(rows) ==
    IF rows = {} THEN 0
    ELSE LET row == CHOOSE r \in rows : TRUE
         IN  row.balance + SumBalances(rows \ {row})

\* All the value the ledger holds: the balances and the pot.
Total == SumBalances(players) + PotOf(games)

\* C20: the total of all balances and the pot changes only in a Credit that
\* succeeds, by exactly the amount credited; every PlaceBet, Settle, Register
\* and read, successful or not, leaves it as it was.
C20_ValueConserved ==
    [][IF last'.op = "deposit" /\ last'.reply = "deposit_ok"
       THEN \A id \in Ids, amount \in Amounts, otp_code \in Codes :
               last'.id = id /\ deposit(id, amount, otp_code) =>
                   Total' = Total + amount
       ELSE Total' = Total]_vars

\* A Settle has just moved a pot that two players had bet into.
C20_Witness ==
    /\ last.op = "win" /\ last.reply = "win_ok"
    /\ Len(game_players) = 2

====
